---- MODULE Spec2Model ----
(***************************************************************************)
(* Reminder scheduling of the telegram assistant: bot/scheduler.py, the    *)
(* firing bodies and callbacks of bot/telegram_bot.py, the Task and        *)
(* Reminder rows of bot/models.py and the admin edits of bot/admin.py.     *)
(*                                                                         *)
(* Time is in minutes.  A due time is a sequence of length 0 (None) or 1.  *)
(***************************************************************************)
EXTENDS Integers, Sequences, FiniteSets, TLC

VARIABLES
    now,        \* timezone.now(), in minutes
    tasks,      \* Task rows, by task id
    reminders,  \* Reminder rows, in creation order (row id = index)
    jobs,       \* the job store of the global BackgroundScheduler
    running,    \* job bodies submitted to the executor and not yet finished
    sent,       \* calls of application.bot.send_message, per task and kind
    sweep,      \* Task instances a running check_overdue_tasks holds, not yet saved
    calls,      \* calls of schedule_reminder / stop_recurring_reminders in progress
    message,    \* the reminder text send_reminder composed last
    conversation, \* the Conversation row of the user, and what was said (history)
    hist,       \* per task: what the run has seen happen (history only)
    last        \* the operation that produced this state (history only)

vars == <<now, tasks, reminders, jobs, running, sent, sweep, calls, message,
          conversation, hist, last>>

----------------------------------------------------------------------------
(* Bounds of the model *)

MaxTime == 70
MaxReminders == 6
MaxEdits == 1
MaxFailures == 2
MaxSeconds == 125
MaxExchanges == 11

(* Program constants *)

\* reminder_times of the urgent branch
reminder_times == <<30, 15, 5>>

\* timedelta(minutes=15) of the high branch and of the medium/low branch
HIGH_MINUTES == 15
STANDARD_MINUTES == 15

\* update_conversation_context: "Keep only last 20 messages (10 exchanges)"
KEEP_MESSAGES == 20

\* the recurring job: timedelta(minutes=5) after the due time, minutes=5 apart
RECURRING_START == 5
RECURRING_MINUTES == 5

----------------------------------------------------------------------------
(* Values *)

\* the task ids (Task.id) of the run
TaskIds == {1}

\* the instants at which the model looks at the program
TimePoints == {n \in 0..MaxTime : n % 5 = 0}

\* the due times a created or edited task may carry
DueTimes == {<<>>, <<60>>}

\* what the extraction gives for the due time of a new task: nothing, a
\* string that datetime.fromisoformat rejects, or an ISO time
DueInputs == {[given |-> FALSE, iso |-> FALSE, at |-> 0],
              [given |-> TRUE, iso |-> FALSE, at |-> 0]}
                \cup {[given |-> TRUE, iso |-> TRUE, at |-> d[1]] :
                        d \in {e \in DueTimes : e # <<>>}}

PRIORITY_CHOICES == {"low", "medium", "high", "urgent"}

STATUS_CHOICES == {"pending", "completed", "cancelled", "overdue"}

OneShotKinds == {"urgent_30min", "urgent_15min", "urgent_5min", "high_15min", "standard_15min"}

Kinds == OneShotKinds \cup {"recurring"}

NoTask == [exists |-> FALSE, status |-> "pending", priority |-> "medium", due_time |-> <<>>]

\* no reminder text composed yet
NoMessage == [text |-> "", minutes |-> 0, time_left |-> 0, at_schedule |-> 0]

\* Conversation.objects.create(session_id=user_id, context={"messages": []})
NoConversation == [context |-> [messages |-> <<>>], said |-> <<>>]

HasDue(task) == Len(task.due_time) = 1

Due(task) == task.due_time[1]

\* history: the operation that produced the state; marks are those of the
\* body that dispatched
Did(op, t) == [op |-> op, task |-> t, kind |-> "", marks |-> {}]

\* history of a task:
\*   done            "no", "now" (completed at the present clock value) or
\*                   "earlier" (completed at a smaller clock value)
\*   doneHigh        its priority was high or urgent when it was completed
\*   stopped         stop_recurring_reminders ran for it since it was last scheduled
\*   edits           the admin edits made to it
\*   rescheduled     schedule_reminder ran for it again after its creation
\*   recurAfterDone  the recurring dispatches made since its completion as
\*                   a high or urgent task
\*   deleted         its row has been deleted
\*   failed          the kinds of its reminders whose send_message failed
\*   readFailed      a firing body of it failed to read its row
\*   saveFailed      the saves of it that failed in check_overdue_tasks
\*   scenario        where the run stands in the example of section 8 of the
\*                   specification: "created" (urgent, created 60 minutes
\*                   before its due time), then "completed" (completed 20
\*                   minutes before it, nothing else done to it), else "off"
NoHist == [done |-> "no", doneHigh |-> FALSE, stopped |-> FALSE, edits |-> 0, rescheduled |-> FALSE,
           recurAfterDone |-> 0, deleted |-> FALSE, failed |-> {}, readFailed |-> FALSE,
           saveFailed |-> 0, scenario |-> "off"]

----------------------------------------------------------------------------
(* The job store: scheduler.add_job / scheduler.remove_job *)

\* a job id built from the Reminder row instead of the task
SingleJobIdByRow(t, reminder_type, reminder_id) ==
    "reminder_" \o ToString(reminder_id) \o "_" \o reminder_type

\* job_id = f"reminder_{task.id}_{reminder_type}"
SingleJobId(t, reminder_type, reminder_id) ==
    "reminder_" \o ToString(t) \o "_" \o reminder_type

\* a job id built with the time of the call
RecurringJobIdAtCall(t) == "recurring_" \o ToString(t) \o "_" \o ToString(now)

\* one job id for the recurring jobs of all tasks
RecurringJobIdShared(t) == "recurring"

\* job_id = f"recurring_{task.id}"
RecurringJobId(t) == "recurring_" \o ToString(t)

\* scheduler.add_job(..., id=job_id, replace_existing=...)
add_job(store, job, replace_existing) ==
    IF \E j \in store : j.id = job.id
    THEN IF replace_existing
         THEN {j \in store : j.id # job.id} \cup {job}
         ELSE store
    ELSE store \cup {job}

\* scheduler.remove_job(job_id); a missing id raises JobLookupError
remove_job(store, job_id) == {j \in store : j.id # job_id}

JobsOf(store, t) == {j \in store : j.task = t}

----------------------------------------------------------------------------
(* bot/scheduler.py.  st is the pair of the job store and the Reminder rows *)

schedule_single_reminder(st, t, reminder_time, reminder_type) ==
    LET reminder == [task |-> t, reminder_time |-> reminder_time, is_sent |-> FALSE]
        rows == Append(st.reminders, reminder)
        job == [id |-> SingleJobId(t, reminder_type, Len(rows)),
                func |-> "send_reminder_job", task |-> t, kind |-> reminder_type,
                next_run_time |-> reminder_time, interval |-> 0]
    IN  [jobs |-> add_job(st.jobs, job, TRUE), reminders |-> rows]

\* the recurring job started at the due time itself
schedule_recurring_at_due(st, t, task, clock) ==
    LET start_time == Due(task)
        job == [id |-> RecurringJobId(t),
                func |-> "send_recurring_reminder_job", task |-> t, kind |-> "recurring",
                next_run_time |-> start_time, interval |-> RECURRING_MINUTES]
    IN  IF start_time > clock
        THEN [jobs |-> add_job(st.jobs, job, TRUE), reminders |-> st.reminders]
        ELSE st

\* the recurring job tested against the due time, not the start time
schedule_recurring_if_due_ahead(st, t, task, clock) ==
    LET start_time == Due(task) + RECURRING_START
        job == [id |-> RecurringJobId(t),
                func |-> "send_recurring_reminder_job", task |-> t, kind |-> "recurring",
                next_run_time |-> start_time, interval |-> RECURRING_MINUTES]
    IN  IF Due(task) > clock
        THEN [jobs |-> add_job(st.jobs, job, TRUE), reminders |-> st.reminders]
        ELSE st

schedule_recurring_reminder(st, t, task, clock) ==
    LET start_time == Due(task) + RECURRING_START
        job == [id |-> RecurringJobId(t),
                func |-> "send_recurring_reminder_job", task |-> t, kind |-> "recurring",
                next_run_time |-> start_time, interval |-> RECURRING_MINUTES]
    IN  IF start_time > clock
        THEN [jobs |-> add_job(st.jobs, job, TRUE), reminders |-> st.reminders]
        ELSE st

\* the offset test with >= for >
schedule_before_or_at(st, t, task, clock, minutes, reminder_type) ==
    LET reminder_time == Due(task) - minutes
    IN  IF reminder_time >= clock
        THEN schedule_single_reminder(st, t, reminder_time, reminder_type)
        ELSE st

\* the loop body of the urgent branch, and the single offsets of the others
schedule_before(st, t, task, clock, minutes, reminder_type) ==
    LET reminder_time == Due(task) - minutes
    IN  IF reminder_time > clock
        THEN schedule_single_reminder(st, t, reminder_time, reminder_type)
        ELSE st

\* for minutes in reminder_times: ... f"urgent_{minutes}min"
RECURSIVE schedule_urgent(_, _, _, _, _)
schedule_urgent(st, t, task, clock, times) ==
    IF times = <<>> THEN st
    ELSE schedule_urgent(
            schedule_before(st, t, task, clock, Head(times),
                            "urgent_" \o ToString(Head(times)) \o "min"),
            t, task, clock, Tail(times))

schedule_reminder(st, t, task, clock) ==
    IF ~HasDue(task) THEN st
    ELSE IF task.priority = "urgent" THEN
        schedule_recurring_reminder(
            schedule_urgent(st, t, task, clock, reminder_times), t, task, clock)
    ELSE IF task.priority = "high" THEN
        schedule_recurring_reminder(
            schedule_before(st, t, task, clock, HIGH_MINUTES, "high_15min"),
            t, task, clock)
    ELSE schedule_before(st, t, task, clock, STANDARD_MINUTES, "standard_15min")

\* a stop that removes nothing
stop_recurring_reminders_nothing(store, task_id) == store

stop_recurring_reminders(store, task_id) == remove_job(store, RecurringJobId(task_id))

\* BaseScheduler.remove_job raises JobLookupError for an id not in the store
JobLookupError(store, job_id) == \A j \in store : j.id # job_id

\* the lookup error let through to the caller
stop_recurring_reminders_uncaught(store, task_id) ==
    IF JobLookupError(store, RecurringJobId(task_id)) THEN "raised" ELSE "stopped"

\* stop_recurring_reminders: how the call ends; "except Exception" catches
\* the lookup error and logs it
stop_recurring_reminders_outcome(store, task_id) ==
    IF JobLookupError(store, RecurringJobId(task_id)) THEN "logged" ELSE "stopped"

\* a completion that is not saved
mark_completed_unsaved(task) == task

\* Task.mark_completed
mark_completed(task) == [task EXCEPT !.status = "completed"]

\* the status test misspelt, so that it never matches
is_completed_misspelt(task) == task.status = "complete"

\* send_reminder: "Skip if task is already completed"
is_completed(task) == task.status = "completed"

\* the recurring body testing for any status but pending
recurring_is_not_pending(task) == task.status # "pending"

\* the status test left out of the recurring body
recurring_is_completed_untested(task) == FALSE

\* send_recurring_reminder: "Stop recurring if task is completed"
recurring_is_completed(task) == task.status = "completed"

\* a missing row only logged by the recurring body
recurring_task_missing_logged(store, task_id) == store

\* send_recurring_reminder, "except Task.DoesNotExist": the recurring job of
\* the missing task is stopped
recurring_task_missing(store, task_id) == stop_recurring_reminders(store, task_id)

----------------------------------------------------------------------------
(* The state after the module is imported: no task, the scheduler started *)

Init ==
    /\ now = 0
    /\ tasks = [t \in TaskIds |-> NoTask]
    /\ reminders = <<>>
    /\ jobs = {}
    /\ running = {}
    /\ sweep = {}
    /\ calls = {}
    /\ message = NoMessage
    /\ conversation = NoConversation
    /\ sent = [t \in TaskIds |-> [k \in Kinds |-> 0]]
    /\ hist = [t \in TaskIds |-> NoHist]
    /\ last = Did("init", 0)

\* room for the Reminder rows of one more schedule_reminder call
RoomToSchedule == Len(reminders) + Len(reminder_times) <= MaxReminders

\* a due time that fails to parse taken to be the present time
parse_due_time_or_now(raw) ==
    IF raw.given THEN (IF raw.iso THEN <<raw.at>> ELSE <<now>>) ELSE <<>>

\* create_task_from_parsed_data: "Parse due time if provided"
parse_due_time(raw) ==
    IF raw.given /\ raw.iso THEN <<raw.at>> ELSE <<>>

\* TelegramBot.create_task_from_parsed_data: the row is created pending and,
\* with a due time, scheduled.  create_task_from_text without parsed data
\* creates the row of a medium task without due time.  The id of a deleted
\* row is not given again.
CreateTask(t, raw, priority) ==
    /\ ~tasks[t].exists
    /\ ~hist[t].deleted
    /\ \A u \in TaskIds : u < t => tasks[u].exists
    /\ RoomToSchedule
    /\ LET due_time == parse_due_time(raw)
           task == [exists |-> TRUE, status |-> "pending",
                    priority |-> priority, due_time |-> due_time]
           st == IF HasDue(task)
                 THEN schedule_reminder([jobs |-> jobs, reminders |-> reminders], t, task, now)
                 ELSE [jobs |-> jobs, reminders |-> reminders]
       IN  /\ tasks' = [tasks EXCEPT ![t] = task]
           /\ jobs' = st.jobs
           /\ reminders' = st.reminders
    /\ hist' = [hist EXCEPT ![t] = [NoHist EXCEPT !.scenario =
                  IF priority = "urgent" /\ parse_due_time(raw) = <<now + 60>>
                  THEN "created" ELSE "off"]]
    /\ last' = [Did("create", t) EXCEPT
                  !.marks = IF raw.given /\ raw.iso THEN {} ELSE {"no_due"}]
    /\ UNCHANGED <<now, running, sent, sweep, calls, message, conversation>>

\* schedule_reminder(task) called again for a stored task
Reschedule(t) ==
    /\ tasks[t].exists
    /\ RoomToSchedule
    /\ LET st == schedule_reminder([jobs |-> jobs, reminders |-> reminders], t, tasks[t], now)
       IN  /\ jobs' = st.jobs
           /\ reminders' = st.reminders
    /\ hist' = [hist EXCEPT ![t].stopped = FALSE, ![t].rescheduled = TRUE,
                             ![t].scenario = "off"]
    /\ last' = [Did("schedule", t) EXCEPT
                  !.marks = IF last.op \in {"create", "schedule"} /\ last.task = t
                            THEN {"again"} ELSE {}]
    /\ UNCHANGED <<now, tasks, running, sent, sweep, calls, message, conversation>>

\* TaskAdmin: priority and due_time of a row are edited and saved
EditTask(t, due_time, priority) ==
    /\ tasks[t].exists
    /\ hist[t].edits < MaxEdits
    /\ <<due_time, priority>> # <<tasks[t].due_time, tasks[t].priority>>
    /\ tasks' = [tasks EXCEPT ![t].due_time = due_time, ![t].priority = priority]
    /\ hist' = [hist EXCEPT ![t].edits = @ + 1, ![t].scenario = "off"]
    /\ last' = Did("edit", t)
    /\ UNCHANGED <<now, reminders, jobs, running, sent, sweep, calls, message, conversation>>

\* TaskAdmin, list_editable status: an open task is set to cancelled
CancelTask(t) ==
    /\ tasks[t].exists
    /\ tasks[t].status \in {"pending", "overdue"}
    /\ tasks' = [tasks EXCEPT ![t].status = "cancelled"]
    /\ hist' = [hist EXCEPT ![t].scenario = "off"]
    /\ last' = Did("cancel", t)
    /\ UNCHANGED <<now, reminders, jobs, running, sent, sweep, calls, message, conversation>>

\* TelegramBot.handle_callback, data "complete_<id>"
CompleteCallback(t) ==
    /\ IF tasks[t].exists
       THEN /\ tasks' = [tasks EXCEPT ![t] = mark_completed(@)]
            /\ jobs' = IF tasks[t].priority \in {"high", "urgent"}
                       THEN stop_recurring_reminders(jobs, t)
                       ELSE jobs
            /\ hist' = [hist EXCEPT
                  ![t].done = IF @ = "no" THEN "now" ELSE @,
                  ![t].doneHigh = IF hist[t].done = "no"
                                  THEN tasks[t].priority \in {"high", "urgent"}
                                  ELSE @,
                  ![t].stopped = @ \/ tasks[t].priority \in {"high", "urgent"},
                  ![t].scenario = IF @ = "created" /\ tasks[t].due_time = <<now + 20>>
                                  THEN "completed" ELSE "off"]
       ELSE UNCHANGED <<tasks, jobs, hist>>
    /\ last' = Did("complete", t)
    /\ UNCHANGED <<now, reminders, running, sent, sweep, calls, message, conversation>>

\* TelegramBot.handle_callback, data "stop_reminders_<id>"
StopRemindersCallback(t) ==
    /\ jobs' = stop_recurring_reminders(jobs, t)
    /\ hist' = [hist EXCEPT ![t].stopped = TRUE, ![t].scenario = "off"]
    /\ last' = [Did("stop", t) EXCEPT
                  !.marks = IF stop_recurring_reminders_outcome(jobs, t) = "raised"
                            THEN {"raised"} ELSE {}]
    /\ running' = {IF r.task = t /\ r.kind = "recurring"
                    THEN [r EXCEPT !.marks = @ \cup {"stop_pressed"}]
                    ELSE r : r \in running}
    /\ UNCHANGED <<now, tasks, reminders, sent, sweep, calls, message, conversation>>

\* check_overdue_tasks
Overdue(task, clock) ==
    task.exists /\ task.status = "pending" /\ HasDue(task) /\ Due(task) < clock

\* check_overdue_tasks up to the loop: the query set is evaluated once and
\* holds the instances it loaded; a run that finds no row changes nothing
check_overdue_tasks ==
    /\ sweep = {}
    /\ \E t \in TaskIds : Overdue(tasks[t], now)
    /\ sweep' = {[id |-> t, task |-> tasks[t]] :
                    t \in {u \in TaskIds : Overdue(tasks[u], now)}}
    /\ last' = Did("query", 0)
    /\ UNCHANGED <<now, tasks, reminders, jobs, running, sent, hist, calls, message, conversation>>

\* a save that writes nothing
save_unwritten(row, instance) == row

\* Model.save() without update_fields: every field of the instance is written
save(row, instance) == instance

\* one pass of the loop: task.status = 'overdue'; task.save()
SaveOverdue(s) ==
    /\ s \in sweep
    /\ tasks' = [tasks EXCEPT ![s.id] = save(@, [s.task EXCEPT !.status = "overdue"])]
    /\ sweep' = sweep \ {s}
    /\ last' = [Did("sweep", s.id) EXCEPT
                  !.marks = IF tasks[s.id] = s.task THEN {} ELSE {"stale"}]
    /\ UNCHANGED <<now, reminders, jobs, running, sent, hist, calls, message, conversation>>

\* the process is stopped and started again: the module is imported anew,
\* scheduler = BackgroundScheduler() starts with an empty job store and no
\* body running; the rows stay in the database
Restart ==
    /\ jobs' = {}
    /\ running' = {}
    /\ sweep' = {}
    /\ hist' = [t \in TaskIds |-> [hist[t] EXCEPT !.scenario = "off"]]
    /\ last' = Did("restart", 0)
    /\ UNCHANGED <<now, tasks, reminders, sent, calls, message, conversation>>

----------------------------------------------------------------------------
(* The scheduler thread and the executor.  BackgroundScheduler() keeps the
   defaults: one running instance per job id, missed run times coalesced. *)

\* history: what had happened to the task before the job fired
FiredMarks(t) ==
    (IF hist[t].stopped THEN {"after_stop"} ELSE {})
        \cup (IF hist[t].done = "earlier" THEN {"done_before"} ELSE {})
        \cup (IF tasks[t].status = "cancelled" THEN {"cancelled"} ELSE {})

\* the scheduler thread finds a job due: the body is submitted, a date job is
\* removed, an interval job gets its next run time
FireJob(j) ==
    /\ j \in jobs
    /\ j.next_run_time <= now
    /\ jobs' = IF j.interval = 0
               THEN jobs \ {j}
               ELSE (jobs \ {j}) \cup {[j EXCEPT !.next_run_time = @ + j.interval]}
    /\ running' = IF \E r \in running : r.id = j.id
                  THEN running
                  ELSE running \cup {[id |-> j.id, func |-> j.func, task |-> j.task,
                                      kind |-> j.kind, run_time |-> j.next_run_time,
                                      phase |-> "submitted",
                                      marks |-> FiredMarks(j.task)]}
    /\ last' = [Did("fire", j.task) EXCEPT !.kind = j.kind]
    /\ UNCHANGED <<now, tasks, reminders, sent, hist, sweep, calls, message, conversation>>

\* TelegramBot.send_reminder up to the status test
LoadForReminder(r) ==
    /\ r \in running
    /\ r.func = "send_reminder_job"
    /\ r.phase = "submitted"
    /\ running' = IF tasks[r.task].exists /\ ~is_completed(tasks[r.task])
                  THEN (running \ {r}) \cup {[r EXCEPT !.phase = "loaded"]}
                  ELSE running \ {r}
    /\ last' = [Did("load", r.task) EXCEPT !.kind = r.kind, !.marks = r.marks]
    /\ UNCHANGED <<now, tasks, reminders, jobs, sent, hist, sweep, calls, message, conversation>>

\* TelegramBot.send_recurring_reminder up to the status test
LoadForRecurring(r) ==
    /\ r \in running
    /\ r.func = "send_recurring_reminder_job"
    /\ r.phase = "submitted"
    /\ IF tasks[r.task].exists /\ ~recurring_is_completed(tasks[r.task])
       THEN /\ running' = (running \ {r}) \cup {[r EXCEPT !.phase = "loaded"]}
            /\ UNCHANGED <<jobs, hist>>
       ELSE /\ running' = running \ {r}
            /\ jobs' = IF tasks[r.task].exists
                       THEN stop_recurring_reminders(jobs, r.task)
                       ELSE recurring_task_missing(jobs, r.task)
            /\ hist' = [hist EXCEPT ![r.task].stopped = TRUE]
    /\ last' = [Did("load", r.task) EXCEPT !.kind = r.kind, !.marks = r.marks]
    /\ UNCHANGED <<now, tasks, reminders, sent, sweep, calls, message, conversation>>

\* the rest of either body: application.bot.send_message
Dispatch(r) ==
    /\ r \in running
    /\ r.phase = "loaded"
    /\ running' = running \ {r}
    /\ sent' = [sent EXCEPT ![r.task][r.kind] = @ + 1]
    /\ hist' = [hist EXCEPT ![r.task].recurAfterDone =
                  IF r.kind = "recurring" /\ hist[r.task].doneHigh
                  THEN @ + 1 ELSE @]
    /\ last' = [Did("dispatch", r.task) EXCEPT !.kind = r.kind, !.marks = r.marks]
    /\ UNCHANGED <<now, tasks, reminders, jobs, sweep, calls, message, conversation>>

\* time passes, up to the next run time of a job; no job is left due and no
\* body is left running behind the clock
Advance(n) ==
    /\ n > now
    /\ n <= MaxTime
    /\ running = {}
    /\ sweep = {}
    /\ \A j \in jobs : j.next_run_time > now /\ j.next_run_time >= n
    /\ now' = n
    /\ hist' = [t \in TaskIds |->
                  [hist[t] EXCEPT !.done = IF @ = "now" THEN "earlier" ELSE @]]
    /\ last' = Did("advance", 0)
    /\ UNCHANGED <<tasks, reminders, jobs, running, sent, sweep, calls, message, conversation>>

Next ==
    \/ \E t \in TaskIds, d \in DueInputs, p \in PRIORITY_CHOICES : CreateTask(t, d, p)
    \/ \E t \in TaskIds : Reschedule(t)
    \/ \E t \in TaskIds, d \in DueTimes, p \in PRIORITY_CHOICES : EditTask(t, d, p)
    \/ \E t \in TaskIds : CompleteCallback(t)
    \/ \E t \in TaskIds : StopRemindersCallback(t)
    \/ check_overdue_tasks
    \/ \E s \in sweep : SaveOverdue(s)
    \/ \E j \in jobs : FireJob(j)
    \/ \E r \in running : LoadForReminder(r)
    \/ \E r \in running : LoadForRecurring(r)
    \/ \E r \in running : Dispatch(r)
    \/ \E n \in TimePoints \cup {j.next_run_time : j \in jobs} : Advance(n)

Spec == Init /\ [][Next]_vars

\* the deployed system: beside the above, the admin closes tasks and the
\* process is restarted
NextDeployed ==
    \/ Next
    \/ \E t \in TaskIds : CancelTask(t)
    \/ Restart

SpecDeployed == Init /\ [][NextDeployed]_vars

----------------------------------------------------------------------------
(* Faults: a Task row deleted, a read or a send that raises inside a firing
   body, an add_job that raises inside schedule_single_reminder *)

\* TaskAdmin, delete: the Task row goes and its Reminder rows with it
\* (on_delete=CASCADE); the job store is not touched
DeleteTask(t) ==
    /\ tasks[t].exists
    /\ tasks' = [tasks EXCEPT ![t] = NoTask]
    /\ reminders' = SelectSeq(reminders, LAMBDA row : row.task # t)
    /\ hist' = [hist EXCEPT ![t].deleted = TRUE, ![t].scenario = "off"]
    /\ last' = Did("delete", t)
    /\ UNCHANGED <<now, jobs, running, sent, sweep, calls, message, conversation>>

\* a read error handled like a missing row
recurring_read_error_as_missing(store, task_id) == stop_recurring_reminders(store, task_id)

\* send_recurring_reminder, "except Exception": the error is logged and
\* nothing is done to the job store
recurring_read_error(store, task_id) == store

\* Task.objects.get raises an error other than Task.DoesNotExist in either
\* body: "except Exception" logs it and the body ends
ReadFails(r) ==
    /\ r \in running
    /\ r.phase = "submitted"
    /\ running' = running \ {r}
    /\ jobs' = IF r.func = "send_recurring_reminder_job"
               THEN recurring_read_error(jobs, r.task)
               ELSE jobs
    /\ hist' = [hist EXCEPT ![r.task].readFailed = TRUE]
    /\ last' = [Did("read_failed", r.task) EXCEPT !.kind = r.kind, !.marks = r.marks]
    /\ UNCHANGED <<now, tasks, reminders, sent, sweep, calls, message, conversation>>

\* a failed send answered with a one-shot job that tries again
send_error_retry(store, r) ==
    add_job(store, [id |-> r.id, func |-> r.func, task |-> r.task, kind |-> r.kind,
                    next_run_time |-> now + RECURRING_MINUTES, interval |-> 0], FALSE)

\* either body, "except Exception" around send_message: the error is logged
\* and nothing is done to the job store
send_error(store, r) == store

\* application.bot.send_message raises: the body ends without a send
DispatchFails(r) ==
    /\ r \in running
    /\ r.phase = "loaded"
    /\ running' = running \ {r}
    /\ jobs' = send_error(jobs, r)
    /\ hist' = [hist EXCEPT ![r.task].failed = @ \cup {r.kind}]
    /\ last' = [Did("dispatch_failed", r.task) EXCEPT !.kind = r.kind, !.marks = r.marks]
    /\ UNCHANGED <<now, tasks, reminders, sent, sweep, calls, message, conversation>>

\* schedule_single_reminder when scheduler.add_job raises: the Reminder row
\* is already created, "except Exception" logs the error and the function
\* returns
schedule_single_reminder_refused(st, t, reminder_time, reminder_type) ==
    LET reminder == [task |-> t, reminder_time |-> reminder_time, is_sent |-> FALSE]
    IN  [jobs |-> st.jobs, reminders |-> Append(st.reminders, reminder)]

\* how schedule_reminder ends for its caller when an add_job inside it
\* raised: schedule_single_reminder has caught the error, the call returns
schedule_reminder_outcome_when_refused == "returned"

\* create_task_from_parsed_data for a low or medium task whose reminder lies
\* ahead, when the scheduler refuses the job
CreateTaskRefused(t, raw, priority) ==
    /\ ~tasks[t].exists
    /\ ~hist[t].deleted
    /\ \A u \in TaskIds : u < t => tasks[u].exists
    /\ RoomToSchedule
    /\ priority \in {"low", "medium"}
    /\ LET due_time == parse_due_time(raw)
           task == [exists |-> TRUE, status |-> "pending",
                    priority |-> priority, due_time |-> due_time]
       IN  /\ HasDue(task)
           /\ Due(task) - STANDARD_MINUTES > now
           /\ LET st == schedule_single_reminder_refused(
                            [jobs |-> jobs, reminders |-> reminders], t,
                            Due(task) - STANDARD_MINUTES, "standard_15min")
              IN  /\ tasks' = [tasks EXCEPT ![t] = task]
                  /\ jobs' = st.jobs
                  /\ reminders' = st.reminders
    /\ hist' = [hist EXCEPT ![t] = NoHist]
    /\ last' = [Did("create", t) EXCEPT
                  !.marks = {"refused"} \cup
                            (IF schedule_reminder_outcome_when_refused = "raised"
                             THEN {"raised"} ELSE {})]
    /\ UNCHANGED <<now, running, sent, sweep, calls, message, conversation>>

\* the bot and the scheduler with these faults
NextFaults ==
    \/ \E t \in TaskIds, d \in DueInputs, p \in PRIORITY_CHOICES : CreateTask(t, d, p)
    \/ \E t \in TaskIds, d \in DueInputs, p \in PRIORITY_CHOICES : CreateTaskRefused(t, d, p)
    \/ \E t \in TaskIds : DeleteTask(t)
    \/ \E t \in TaskIds : CompleteCallback(t)
    \/ \E t \in TaskIds : StopRemindersCallback(t)
    \/ \E j \in jobs : FireJob(j)
    \/ \E r \in running : LoadForReminder(r)
    \/ \E r \in running : LoadForRecurring(r)
    \/ \E r \in running : ReadFails(r)
    \/ \E r \in running : Dispatch(r)
    \/ \E r \in running : DispatchFails(r)
    \/ \E n \in TimePoints \cup {j.next_run_time : j \in jobs} : Advance(n)

SpecFaults == Init /\ [][NextFaults]_vars

----------------------------------------------------------------------------
(* check_overdue_tasks with a repository that fails.  The function has no
   try/except: an exception ends the run of the job, the executor logs it,
   and the interval job installed at import stays in the store for its next
   run time. *)

\* the query raises: nothing was read, nothing is written
QueryFails ==
    /\ sweep = {}
    /\ \E t \in TaskIds : Overdue(tasks[t], now)
    /\ last' = Did("query_failed", 0)
    /\ UNCHANGED <<now, tasks, reminders, jobs, running, sent, sweep, calls, hist,
                   message, conversation>>

\* task.save() raises in the loop: the instances not yet saved are dropped
\* with the run
SaveFails(s) ==
    /\ s \in sweep
    /\ hist[s.id].saveFailed < MaxFailures
    /\ sweep' = {}
    /\ hist' = [hist EXCEPT ![s.id].saveFailed = @ + 1]
    /\ last' = Did("save_failed", s.id)
    /\ UNCHANGED <<now, tasks, reminders, jobs, running, sent, calls, message, conversation>>

NextSweep ==
    \/ \E t \in TaskIds, d \in DueInputs, p \in PRIORITY_CHOICES : CreateTask(t, d, p)
    \/ \E t \in TaskIds : CompleteCallback(t)
    \/ check_overdue_tasks
    \/ QueryFails
    \/ \E s \in sweep : SaveOverdue(s)
    \/ \E s \in sweep : SaveFails(s)
    \/ \E j \in jobs : FireJob(j)
    \/ \E r \in running : LoadForReminder(r)
    \/ \E r \in running : LoadForRecurring(r)
    \/ \E r \in running : Dispatch(r)
    \/ \E n \in TimePoints \cup {j.next_run_time : j \in jobs} : Advance(n)

\* the scheduler thread runs the interval job 'check_overdue' whenever it is
\* due, and a run that has loaded its rows goes through its loop
SpecSweep ==
    /\ Init
    /\ [][NextSweep]_vars
    /\ WF_vars(check_overdue_tasks)
    /\ WF_vars(\E s \in sweep : SaveOverdue(s))

----------------------------------------------------------------------------
(* Two callers of bot/scheduler.py at once.  Neither schedule_reminder nor
   stop_recurring_reminders takes a lock: a call is the sequence of its
   add_job / remove_job calls on the one global scheduler, and the steps of
   two calls may alternate. *)

CallIds == {"a", "b"}

\* the due times of the Task instances the callers hold
CallDueTimes == {<<50>>, <<60>>}

\* the add_job steps of schedule_reminder(task), in the order of the code
InstallSteps(task) ==
    IF ~HasDue(task) THEN <<>>
    ELSE IF task.priority = "urgent" THEN
        [i \in 1..Len(reminder_times) |->
            [minutes |-> reminder_times[i],
             reminder_type |-> "urgent_" \o ToString(reminder_times[i]) \o "min"]]
          \o <<[minutes |-> 0, reminder_type |-> "recurring"]>>
    ELSE IF task.priority = "high" THEN
        <<[minutes |-> HIGH_MINUTES, reminder_type |-> "high_15min"],
          [minutes |-> 0, reminder_type |-> "recurring"]>>
    ELSE <<[minutes |-> STANDARD_MINUTES, reminder_type |-> "standard_15min"]>>

\* one step of a call on the job store and the Reminder rows
CallStep(st, c, clock) ==
    LET step == Head(c.steps)
    IN  IF c.func = "stop_recurring_reminders"
        THEN [jobs |-> stop_recurring_reminders(st.jobs, c.task), reminders |-> st.reminders]
        ELSE IF step.reminder_type = "recurring"
        THEN schedule_recurring_reminder(st, c.task, c.instance, clock)
        ELSE schedule_before(st, c.task, c.instance, clock, step.minutes, step.reminder_type)

\* the steps still to be made by the calls in progress
RECURSIVE StepsLeft(_)
StepsLeft(cs) ==
    IF cs = {} THEN 0
    ELSE LET c == CHOOSE x \in cs : TRUE
         IN  Len(c.steps) + StepsLeft(cs \ {c})

\* a Task row made in the admin, which schedules nothing: the state in which
\* the callers find the task
InitConcurrent ==
    /\ now = 0
    /\ tasks \in [TaskIds -> {[exists |-> TRUE, status |-> "pending",
                               priority |-> p, due_time |-> d] :
                                 p \in PRIORITY_CHOICES, d \in CallDueTimes}]
    /\ reminders = <<>>
    /\ jobs = {}
    /\ running = {}
    /\ sweep = {}
    /\ calls = {}
    /\ message = NoMessage
    /\ conversation = NoConversation
    /\ sent = [t \in TaskIds |-> [k \in Kinds |-> 0]]
    /\ hist = [t \in TaskIds |-> NoHist]
    /\ last = Did("init", 0)

\* a caller enters schedule_reminder(task) with its instance of the task
BeginSchedule(n, t, due_time, priority) ==
    /\ \A c \in calls : c.n # n
    /\ n = "b" => \E c \in calls : c.n = "a"
    /\ tasks[t].exists
    /\ LET instance == [tasks[t] EXCEPT !.due_time = due_time, !.priority = priority]
       IN  /\ Len(reminders) + StepsLeft(calls) + Len(InstallSteps(instance)) <= MaxReminders
           /\ calls' = calls \cup {[n |-> n, func |-> "schedule_reminder", task |-> t,
                                    instance |-> instance, steps |-> InstallSteps(instance)]}
    /\ last' = Did("enter", t)
    /\ UNCHANGED <<now, tasks, reminders, jobs, running, sent, sweep, hist, message, conversation>>

\* a caller enters stop_recurring_reminders(task_id)
BeginStop(n, t) ==
    /\ \A c \in calls : c.n # n
    /\ n = "b" => \E c \in calls : c.n = "a"
    /\ calls' = calls \cup {[n |-> n, func |-> "stop_recurring_reminders", task |-> t,
                             instance |-> tasks[t],
                             steps |-> <<[minutes |-> 0, reminder_type |-> "stop"]>>]}
    /\ last' = Did("enter", t)
    /\ UNCHANGED <<now, tasks, reminders, jobs, running, sent, sweep, hist, message, conversation>>

\* the next add_job (with its Reminder row) or remove_job of a call
StepCall(c) ==
    /\ c \in calls
    /\ c.steps # <<>>
    /\ LET st == CallStep([jobs |-> jobs, reminders |-> reminders], c, now)
       IN  /\ jobs' = st.jobs
           /\ reminders' = st.reminders
    /\ calls' = (calls \ {c}) \cup {[c EXCEPT !.steps = Tail(@)]}
    /\ last' = Did("step", c.task)
    /\ UNCHANGED <<now, tasks, running, sent, sweep, hist, message, conversation>>

NextConcurrent ==
    \/ \E n \in CallIds, t \in TaskIds, d \in CallDueTimes, p \in PRIORITY_CHOICES :
          BeginSchedule(n, t, d, p)
    \/ \E n \in CallIds, t \in TaskIds : BeginStop(n, t)
    \/ \E c \in calls : StepCall(c)

SpecConcurrent == InitConcurrent /\ [][NextConcurrent]_vars

\* a call run alone, from its first step to its return
CallAlone(store, c, clock) ==
    IF c.func = "stop_recurring_reminders"
    THEN stop_recurring_reminders(store, c.task)
    ELSE schedule_reminder([jobs |-> store, reminders |-> <<>>], c.task, c.instance, clock).jobs

----------------------------------------------------------------------------
(* The text of a one-shot reminder: send_reminder without custom_message,
   which is how send_reminder_async calls it.  Times here are in seconds. *)

\* the division rounded down
minutes_left_floor(due_time, clock) == (due_time - clock) \div 60

\* int(time_left.total_seconds() / 60): int() truncates toward zero
minutes_left(due_time, clock) ==
    LET seconds == due_time - clock
    IN  IF seconds >= 0 THEN seconds \div 60 ELSE 0 - ((0 - seconds) \div 60)

\* the line of the message that tells the time
reminder_text(minutes) ==
    IF minutes > 0 THEN [text |-> "Due in", minutes |-> minutes]
    ELSE IF minutes < 0 THEN [text |-> "Overdue by", minutes |-> 0 - minutes]
    ELSE [text |-> "Due NOW", minutes |-> 0]

\* send_reminder composes the text for a task due at due_time, its job
\* installed at clock value scheduled and fired at clock value fired
ComposeReminder(due_time, scheduled, fired) ==
    /\ scheduled <= fired
    /\ LET line == reminder_text(minutes_left(due_time, fired))
       IN  message' = [text |-> line.text, minutes |-> line.minutes,
                       time_left |-> due_time - fired,
                       at_schedule |-> due_time - scheduled]
    /\ last' = Did("compose", 0)
    /\ UNCHANGED <<now, tasks, reminders, jobs, running, sent, sweep, calls,
                   conversation, hist>>

NextReminderText ==
    \E scheduled \in {0, MaxSeconds}, fired \in 0..(2 * MaxSeconds) :
        ComposeReminder(MaxSeconds, scheduled, fired)

SpecReminderText == Init /\ [][NextReminderText]_vars

----------------------------------------------------------------------------
(* The conversation context: update_conversation_context *)

UserMessages == {"hello", "thanks"}

Responses == {"sure"}

\* messages[:20], the oldest entries kept
keep_first(messages) ==
    IF Len(messages) > KEEP_MESSAGES
    THEN SubSeq(messages, 1, KEEP_MESSAGES)
    ELSE messages

\* if len(messages) > 20: messages = messages[-20:]
keep_last(messages) ==
    IF Len(messages) > KEEP_MESSAGES
    THEN SubSeq(messages, Len(messages) - KEEP_MESSAGES + 1, Len(messages))
    ELSE messages

\* the two entries of an exchange
Exchange(user_message, bot_response) ==
    <<[role |-> "user", content |-> user_message],
      [role |-> "assistant", content |-> bot_response]>>

update_conversation_context(conv, user_message, bot_response) ==
    LET messages == conv.context.messages \o Exchange(user_message, bot_response)
    IN  [conv EXCEPT !.context.messages = keep_last(messages),
                     !.said = @ \o Exchange(user_message, bot_response)]

\* handle_message, the conversational branch: the reply is sent and the
\* context of the user updated
UpdateConversationContext(user_message, bot_response) ==
    /\ Len(conversation.said) < 2 * MaxExchanges
    /\ conversation' = update_conversation_context(conversation, user_message, bot_response)
    /\ last' = Did("context", 0)
    /\ UNCHANGED <<now, tasks, reminders, jobs, running, sent, sweep, calls,
                   message, hist>>

NextConversation ==
    \E u \in UserMessages, r \in Responses : UpdateConversationContext(u, r)

SpecConversation == Init /\ [][NextConversation]_vars

----------------------------------------------------------------------------
(* Updates and their senders: the handlers of bot/telegram_bot.py as the
   Application calls them, for an update of any Telegram user *)

\* settings.AUTHORIZED_USER_ID
AUTHORIZED_USER_ID == "owner"

\* update.effective_user.id of the updates that arrive
Users == {"owner", "stranger"}

\* TelegramBot.is_authorized
is_authorized(user) == user = AUTHORIZED_USER_ID

\* history: the sender of the update was not the authorized user
SenderMarks(user) == IF is_authorized(user) THEN {} ELSE {"unauthorized"}

\* TelegramBot.handle_message (and the command handlers, which begin with
\* the same test): an update of another user is answered "not authorized"
\* and nothing else is done
HandleMessage(user, t, raw, priority) ==
    IF is_authorized(user)
    THEN CreateTask(t, raw, priority)
    ELSE /\ last' = [Did("message", 0) EXCEPT !.marks = SenderMarks(user)]
         /\ UNCHANGED <<now, tasks, reminders, jobs, running, sent, sweep, calls,
                        message, conversation, hist>>

\* TelegramBot.handle_callback: query.answer() and then the branch of
\* query.data; is_authorized is not called.  The branches are those of
\* CompleteCallback and StopRemindersCallback.
HandleCallback(user, data, t) ==
    /\ data \in {"complete", "stop_reminders"}
    /\ IF data = "complete"
       THEN /\ IF tasks[t].exists
               THEN /\ tasks' = [tasks EXCEPT ![t] = mark_completed(@)]
                    /\ jobs' = IF tasks[t].priority \in {"high", "urgent"}
                               THEN stop_recurring_reminders(jobs, t)
                               ELSE jobs
                    /\ hist' = [hist EXCEPT
                          ![t].done = IF @ = "no" THEN "now" ELSE @,
                          ![t].doneHigh = IF hist[t].done = "no"
                                          THEN tasks[t].priority \in {"high", "urgent"}
                                          ELSE @,
                          ![t].stopped = @ \/ tasks[t].priority \in {"high", "urgent"},
                          ![t].scenario = "off"]
               ELSE UNCHANGED <<tasks, jobs, hist>>
            /\ last' = [Did("complete", t) EXCEPT !.marks = SenderMarks(user)]
            /\ UNCHANGED running
       ELSE /\ jobs' = stop_recurring_reminders(jobs, t)
            /\ hist' = [hist EXCEPT ![t].stopped = TRUE, ![t].scenario = "off"]
            /\ last' = [Did("stop", t) EXCEPT !.marks = SenderMarks(user)]
            /\ running' = {IF r.task = t /\ r.kind = "recurring"
                            THEN [r EXCEPT !.marks = @ \cup {"stop_pressed"}]
                            ELSE r : r \in running}
            /\ UNCHANGED tasks
    /\ UNCHANGED <<now, reminders, sent, sweep, calls, message, conversation>>

NextUpdates ==
    \/ \E user \in Users, t \in TaskIds, d \in DueInputs, p \in PRIORITY_CHOICES :
          HandleMessage(user, t, d, p)
    \/ \E user \in Users, data \in {"complete", "stop_reminders"}, t \in TaskIds :
          HandleCallback(user, data, t)
    \/ \E j \in jobs : FireJob(j)
    \/ \E r \in running : LoadForReminder(r)
    \/ \E r \in running : LoadForRecurring(r)
    \/ \E r \in running : Dispatch(r)
    \/ \E n \in TimePoints \cup {j.next_run_time : j \in jobs} : Advance(n)

SpecUpdates == Init /\ [][NextUpdates]_vars

----------------------------------------------------------------------------
(* Two tasks side by side in the one job store, with the jobs that
   bot/scheduler.py registers when it is imported *)

FrameTaskIds == {1, 2}

\* scheduler.add_job(check_overdue_tasks, 'interval', hours=1,
\* id='check_overdue') and schedule_daily_greeting(): cron, 8:00
ModuleJobs ==
    {[id |-> "check_overdue", func |-> "check_overdue_tasks", task |-> 0,
      kind |-> "check_overdue", next_run_time |-> 60, interval |-> 60],
     [id |-> "daily_greeting", func |-> "send_daily_greeting_job", task |-> 0,
      kind |-> "daily_greeting", next_run_time |-> 480, interval |-> 1440]}

\* the process just started, at some clock value before the first run of
\* the module jobs; two Task rows are stored and nothing is scheduled for
\* them yet
InitFrame ==
    /\ now \in {n \in TimePoints : \A j \in ModuleJobs : n < j.next_run_time}
    /\ tasks \in [FrameTaskIds -> {[exists |-> TRUE, status |-> "pending",
                                    priority |-> p, due_time |-> d] :
                                      p \in PRIORITY_CHOICES, d \in DueTimes}]
    /\ reminders = <<>>
    /\ jobs = ModuleJobs
    /\ running = {}
    /\ sweep = {}
    /\ calls = {}
    /\ message = NoMessage
    /\ conversation = NoConversation
    /\ sent = [t \in FrameTaskIds |-> [k \in Kinds |-> 0]]
    /\ hist = [t \in FrameTaskIds |-> NoHist]
    /\ last = Did("init", 0)

\* schedule_reminder(task) and stop_recurring_reminders(task_id) for either
\* task
NextFrame ==
    \/ \E t \in FrameTaskIds : Reschedule(t)
    \/ \E t \in FrameTaskIds : StopRemindersCallback(t)

SpecFrame == InitFrame /\ [][NextFrame]_vars

----------------------------------------------------------------------------
(* What the claims speak of *)

\* a job as the claims see it: its fire time and its interval (0: one-shot)
View(j) == [at |-> j.next_run_time, every |-> j.interval]

Views(store) == {View(j) : j \in store}

\* section 4.1 of the specification: the minutes before the due time
TableOffsets(priority) == IF priority = "urgent" THEN {30, 15, 5} ELSE {15}

TableRecurs(priority) == priority \in {"urgent", "high"}

\* the job set of the table for a due time d, whatever the clock
TableJobs(priority, d) ==
    {[at |-> d - m, every |-> 0] : m \in TableOffsets(priority)}
        \cup (IF TableRecurs(priority) THEN {[at |-> d + 5, every |-> 5]} ELSE {})

\* the desired set at a clock value: the entries of the table that lie after it
DesiredJobs(task, clock) ==
    IF HasDue(task)
    THEN {v \in TableJobs(task.priority, Due(task)) : v.at > clock}
    ELSE {}

AllOffsetsAhead(task, clock) ==
    HasDue(task) /\ \A m \in TableOffsets(task.priority) : Due(task) - m > clock

\* C1: schedule_reminder for a new task whose offsets all lie after now
\* installs exactly the job set of the table for its priority, one job per
\* entry, and nothing else.
C1_PolicyInstalled ==
    \A t \in TaskIds :
        (last.op = "create" /\ last.task = t /\ AllOffsetsAhead(tasks[t], now))
            => /\ Views(JobsOf(jobs, t)) = TableJobs(tasks[t].priority, Due(tasks[t]))
               /\ Cardinality(JobsOf(jobs, t))
                    = Cardinality(TableJobs(tasks[t].priority, Due(tasks[t])))

C1_Witness ==
    \E t \in TaskIds :
        /\ last.op = "create" /\ last.task = t
        /\ AllOffsetsAhead(tasks[t], now)
        /\ tasks[t].priority = "urgent"
        /\ Cardinality(JobsOf(jobs, t)) = 4

\* C2: after schedule_reminder returns for a task, the jobs installed for it
\* are exactly the desired set of its current priority and due time; no job
\* of an earlier configuration remains.
C2_NoStaleJobs ==
    \A t \in TaskIds :
        (last.op = "schedule" /\ last.task = t)
            => Views(JobsOf(jobs, t)) = DesiredJobs(tasks[t], now)

\* C3: schedule_reminder called for a task right after schedule_reminder for
\* the same task (nothing in between) leaves the job store as the first call
\* left it.
C3_Idempotent ==
    [][(last.op \in {"create", "schedule"} /\ last'.op = "schedule"
            /\ last'.task = last.task) => jobs' = jobs]_vars

C3_Witness ==
    /\ last.op = "schedule"
    /\ "again" \in last.marks
    /\ Cardinality(JobsOf(jobs, last.task)) = 4

\* C4: no two installed jobs have the same task and kind.
C4_OneTimerPerIdentity ==
    \A j1 \in jobs : \A j2 \in jobs :
        (j1.task = j2.task /\ j1.kind = j2.kind) => j1 = j2

C4_Witness ==
    /\ last.op = "schedule"
    /\ hist[last.task].edits > 0
    /\ Cardinality(JobsOf(jobs, last.task)) = 5

\* C5: after stop_recurring_reminders(task_id), called by the Stop Reminders
\* callback, no job of that task is installed, one-shot or recurring.
C5_CancelRemovesAll ==
    last.op = "stop" => JobsOf(jobs, last.task) = {}

\* C6: a job of a task that fires after the cancel-by-task operation has
\* returned for the task dispatches nothing.
C6_NoDispatchAfterCancel ==
    ~(last.op = "dispatch" /\ "after_stop" \in last.marks)

\* C7: when the complete_<id> callback returns for a stored task, no job of
\* that task is installed.
C7_CompleteCancelsAll ==
    (last.op = "complete" /\ tasks[last.task].exists)
        => JobsOf(jobs, last.task) = {}

\* C8: a one-shot job whose task was completed strictly before the job's fire
\* time dispatches nothing.
C8_NoDispatchOnceCompleted ==
    ~(last.op = "dispatch" /\ last.kind \in OneShotKinds
        /\ "done_before" \in last.marks)

\* a one-shot body found its task completed earlier and returned
C8_Witness ==
    /\ last.op = "load"
    /\ last.kind \in OneShotKinds
    /\ "done_before" \in last.marks
    /\ running = {}
    /\ sent[last.task][last.kind] = 0

\* C9: after the completion of a high or urgent task its recurring job
\* dispatches at most once more, and when the complete callback returns for
\* such a task its recurring job is no longer installed.
C9_RecurrenceTerminates ==
    \A t \in TaskIds :
        /\ hist[t].recurAfterDone <= 1
        /\ (last.op = "complete" /\ last.task = t /\ tasks[t].exists
                /\ tasks[t].priority \in {"high", "urgent"})
              => ~\E j \in JobsOf(jobs, t) : j.kind = "recurring"

\* the tick in flight at the completion dispatched, and the job is gone
C9_Witness ==
    \E t \in TaskIds :
        /\ hist[t].recurAfterDone = 1
        /\ tasks[t].priority = "urgent"
        /\ tasks[t].status = "completed"
        /\ JobsOf(jobs, t) = {}
        /\ running = {}

\* C10: an urgent task with due time T created at T-60 gets the one-shots at
\* T-30, T-15, T-5 and the recurring job from T+5 every 5 minutes; completed
\* at T-20, with nothing else done to it, its dispatches over the run are the
\* one of the T-30 job and no other.
C10_Scenario ==
    \A t \in TaskIds :
        /\ (last.op = "create" /\ last.task = t /\ hist[t].scenario = "created")
              => Views(JobsOf(jobs, t)) =
                    {[at |-> Due(tasks[t]) - 30, every |-> 0],
                     [at |-> Due(tasks[t]) - 15, every |-> 0],
                     [at |-> Due(tasks[t]) - 5, every |-> 0],
                     [at |-> Due(tasks[t]) + 5, every |-> 5]}
        /\ hist[t].scenario = "completed"
              => sent[t] = [k \in Kinds |-> IF k = "urgent_30min" THEN 1 ELSE 0]

\* the scenario has run past the due time and two recurring periods
C10_Witness ==
    \E t \in TaskIds :
        /\ hist[t].scenario = "completed"
        /\ now >= Due(tasks[t]) + 10
        /\ running = {}
        /\ sent[t]["urgent_30min"] = 1

\* the Reminder rows of a task
RowsOf(t) == {i \in 1..Len(reminders) : reminders[i].task = t}

\* the minutes before the due time that a one-shot kind stands for
KindOffset(k) ==
    IF k = "urgent_30min" THEN 30 ELSE IF k = "urgent_5min" THEN 5 ELSE 15

OneShots(store) == {j \in store : j.interval = 0}

\* C11: schedule_reminder for a new task installs a one-shot job for exactly
\* the offsets whose fire time is strictly after now (a passed offset does
\* not keep a later one out); no installed one-shot job lies behind the
\* clock; and a one-shot kind of a task scheduled once dispatches only if a
\* job was installed for it.
C11_OnlyFutureOneShots ==
    \A t \in TaskIds :
        /\ (last.op = "create" /\ last.task = t /\ HasDue(tasks[t]))
              => Views(OneShots(JobsOf(jobs, t))) =
                    {[at |-> Due(tasks[t]) - m, every |-> 0] :
                        m \in {n \in TableOffsets(tasks[t].priority) :
                                    Due(tasks[t]) - n > now}}
        /\ \A j \in OneShots(JobsOf(jobs, t)) : j.next_run_time >= now
        /\ (tasks[t].exists /\ HasDue(tasks[t]) /\ hist[t].edits = 0
                /\ ~hist[t].rescheduled)
              => \A k \in OneShotKinds :
                    sent[t][k] > 0 =>
                        \E i \in RowsOf(t) :
                            reminders[i].reminder_time = Due(tasks[t]) - KindOffset(k)

\* created exactly 15 minutes before the due time: of the urgent offsets only
\* the 5 minute one is installed, beside the recurring job
C11_Witness ==
    \E t \in TaskIds :
        /\ last.op = "create" /\ last.task = t
        /\ tasks[t].priority = "urgent"
        /\ HasDue(tasks[t])
        /\ now = Due(tasks[t]) - 15
        /\ Views(OneShots(JobsOf(jobs, t))) = {[at |-> Due(tasks[t]) - 5, every |-> 0]}

Recurring(store) == {j \in store : j.kind = "recurring"}

\* C12: schedule_reminder for a new urgent or high task installs the
\* recurring job if and only if due_time + 5 is after now, with its first
\* tick at due_time + 5 and an interval of 5; every later run time of the job
\* is a multiple of 5 minutes after the due time.
C12_RecurringIffStartAhead ==
    \A t \in TaskIds :
        /\ (last.op = "create" /\ last.task = t /\ HasDue(tasks[t])
                /\ tasks[t].priority \in {"urgent", "high"})
              => /\ Recurring(JobsOf(jobs, t)) # {} <=> Due(tasks[t]) + 5 > now
                 /\ \A j \in Recurring(JobsOf(jobs, t)) :
                        View(j) = [at |-> Due(tasks[t]) + 5, every |-> 5]
        /\ (tasks[t].exists /\ HasDue(tasks[t]) /\ hist[t].edits = 0)
              => \A j \in Recurring(JobsOf(jobs, t)) :
                    /\ j.interval = 5
                    /\ j.next_run_time >= Due(tasks[t]) + 5
                    /\ (j.next_run_time - Due(tasks[t])) % 5 = 0

\* a high task created more than 5 minutes after its due time has no job
C12_Witness ==
    \E t \in TaskIds :
        /\ last.op = "create" /\ last.task = t
        /\ tasks[t].priority = "high"
        /\ HasDue(tasks[t])
        /\ now > Due(tasks[t]) + 5
        /\ JobsOf(jobs, t) = {}

\* C13: a task created without a due time, or with one that does not parse,
\* is stored pending with no job and no Reminder row; as long as it has no
\* due time, schedule_reminder for it installs nothing and creates no row.
C13_NoDueNoJobs ==
    \A t \in TaskIds :
        /\ (last.op = "create" /\ last.task = t /\ "no_due" \in last.marks)
              => /\ tasks[t].exists
                 /\ tasks[t].status = "pending"
                 /\ ~HasDue(tasks[t])
        /\ (tasks[t].exists /\ ~HasDue(tasks[t]) /\ hist[t].edits = 0)
              => /\ JobsOf(jobs, t) = {}
                 /\ RowsOf(t) = {}

\* schedule_reminder has run for a task created without due time
C13_Witness ==
    \E t \in TaskIds :
        /\ last.op = "schedule" /\ last.task = t
        /\ tasks[t].exists
        /\ ~HasDue(tasks[t])
        /\ hist[t].edits = 0
        /\ JobsOf(jobs, t) = {}

C14_NothingRaised ==
    last.op = "stop" => "raised" \notin last.marks

\* C14: stop_recurring_reminders for a task without installed jobs raises
\* nothing to its caller and leaves the job store, the task rows and the
\* Reminder rows as they were; a second call right after a first one changes
\* nothing either.
C14_StopIsNoOp ==
    /\ []C14_NothingRaised
    /\ [][(last'.op = "stop"
            /\ (JobsOf(jobs, last'.task) = {}
                  \/ (last.op = "stop" /\ last.task = last'.task)))
            => (jobs' = jobs /\ tasks' = tasks /\ reminders' = reminders)]_vars

\* the callback pressed for a stored task that never had a job: a medium
\* task created when its only offset had passed
C14_Witness ==
    \E t \in TaskIds :
        /\ last.op = "stop" /\ last.task = t
        /\ tasks[t].exists
        /\ HasDue(tasks[t])
        /\ tasks[t].priority = "medium"
        /\ hist[t].edits = 0
        /\ RowsOf(t) = {}
        /\ JobsOf(jobs, t) = {}

\* C15: completed and cancelled are terminal and no task returns to
\* pending: no step changes the status of a completed or cancelled task, and
\* no step sets the status of a stored task back to pending.
C15_TerminalStates ==
    [][\A t \in TaskIds :
          tasks[t].exists =>
              /\ tasks[t].status \in {"completed", "cancelled"}
                    => tasks'[t].status = tasks[t].status
              /\ tasks[t].status # "pending" => tasks'[t].status # "pending"]_vars

\* C16: in every interleaving of check_overdue_tasks with the complete
\* callback, a step that sets a task's status to overdue finds the stored
\* status pending.
C16_OverdueOnlyFromPending ==
    [][\A t \in TaskIds :
          (tasks'[t].status = "overdue" /\ tasks[t].status # "overdue")
              => tasks[t].status = "pending"]_vars

\* C17: a save of the sweep sets to overdue a task that is pending with its
\* due time before now, and nothing else: every other task row, and every
\* other field, stays as stored.
C17_SweepChangesOnlyPendingPast ==
    [][last'.op = "sweep" =>
          \A t \in TaskIds :
              tasks'[t] = IF t = last'.task /\ Overdue(tasks[t], now)
                          THEN [tasks[t] EXCEPT !.status = "overdue"]
                          ELSE tasks[t]]_vars

\* C18: after a restart every pending task with a due time (here: one the
\* admin has not edited) has the one-shot jobs of its desired job set
\* installed.
C18_RestartReconstructs ==
    last.op = "restart" =>
        \A t \in TaskIds :
            (tasks[t].exists /\ tasks[t].status = "pending" /\ HasDue(tasks[t])
                    /\ hist[t].edits = 0)
                => Views(OneShots(JobsOf(jobs, t)))
                      = {v \in DesiredJobs(tasks[t], now) : v.every = 0}

\* C19 as stated: once Stop Reminders has been pressed for a task, no
\* recurring reminder of the task is dispatched.
C19_NoRecurringOnceStopped ==
    ~(last.op = "dispatch" /\ last.kind = "recurring"
        /\ last.marks \cap {"after_stop", "stop_pressed"} # {})

C19_State ==
    /\ last.op = "stop" => Recurring(JobsOf(jobs, last.task)) = {}
    /\ ~(last.op = "dispatch" /\ last.kind = "recurring"
            /\ "after_stop" \in last.marks)

\* C19: when the stop_reminders callback returns, the recurring job of the
\* task is no longer installed, and no recurring tick that fires after the
\* press dispatches, until schedule_reminder runs for the task again; the
\* press leaves the task rows as they were.  (A tick whose body was already
\* running at the press may still dispatch, once.)
C19_StopEndsRecurrence ==
    /\ []C19_State
    /\ [][last'.op = "stop" => tasks' = tasks]_vars

\* the press came after a recurring reminder had been sent: the job is gone,
\* the task still pending
C19_Witness ==
    \E t \in TaskIds :
        /\ last.op = "stop" /\ last.task = t
        /\ sent[t]["recurring"] >= 1
        /\ tasks[t].status = "pending"
        /\ Recurring(JobsOf(jobs, t)) = {}
        /\ running = {}

\* C20: the body of a one-shot job sends only if it finds the task pending;
\* here: a one-shot job that fires for a cancelled task sends nothing.
C20_OneShotOnlyIfPending ==
    ~(last.op = "dispatch" /\ last.kind \in OneShotKinds
        /\ "cancelled" \in last.marks)

\* the body of the recurring job of task t is past its status test
RecurringLoaded(t) ==
    \E r \in running : r.task = t /\ r.kind = "recurring" /\ r.phase = "loaded"

\* C21: a recurring tick that finds the task not pending (completed,
\* cancelled or overdue) sends nothing and removes the recurring job.
C21_SelfCancelWhenNotPending ==
    \A t \in TaskIds :
        (last.op = "load" /\ last.task = t /\ last.kind = "recurring"
            /\ tasks[t].exists /\ tasks[t].status # "pending")
          => /\ ~RecurringLoaded(t)
             /\ Recurring(JobsOf(jobs, t)) = {}

C22_TickOfOverdueSends ==
    \A t \in TaskIds :
        (last.op = "load" /\ last.task = t /\ last.kind = "recurring"
            /\ tasks[t].exists /\ tasks[t].status = "overdue")
          => RecurringLoaded(t)

\* C22: the steps of check_overdue_tasks leave the job store as it was, and
\* a recurring tick that finds the task overdue goes on to send (it removes
\* nothing from the store), so the recurring job of an overdue task keeps
\* dispatching.
C22_SweepLeavesJobs ==
    /\ []C22_TickOfOverdueSends
    /\ [][(last'.op \in {"query", "sweep"}
            \/ (last'.op = "load" /\ last'.kind = "recurring"
                  /\ tasks[last'.task].status = "overdue"))
            => jobs' = jobs]_vars

\* the second recurring reminder of a task marked overdue has been sent and
\* the job is still installed
C22_Witness ==
    \E t \in TaskIds :
        /\ last.op = "dispatch" /\ last.task = t /\ last.kind = "recurring"
        /\ tasks[t].status = "overdue"
        /\ tasks[t].priority \in {"high", "urgent"}
        /\ sent[t]["recurring"] = 2
        /\ Recurring(JobsOf(jobs, t)) # {}

\* C23: when two calls of schedule_reminder / stop_recurring_reminders for
\* one task have both returned, the job store is the one that the two calls
\* give when run one after the other, in one order or the other.
C23_CallsSerialized ==
    (Cardinality(calls) = 2 /\ \A c \in calls : c.steps = <<>>)
        => \E a \in calls, b \in calls :
              /\ a # b
              /\ jobs = CallAlone(CallAlone({}, a, now), b, now)

\* C24: once the reminder of a one-shot job has been sent, a Reminder row of
\* the task is marked sent.
C24_SentMarked ==
    \A t \in TaskIds :
        (last.op = "dispatch" /\ last.task = t /\ last.kind \in OneShotKinds)
            => \E i \in RowsOf(t) : reminders[i].is_sent

\* C25: when schedule_reminder returns for a new task, every installed job
\* of the task, one-shot or recurring, has a Reminder row with its fire time.
C25_RowPerJob ==
    \A t \in TaskIds :
        (last.op = "create" /\ last.task = t)
            => \A j \in JobsOf(jobs, t) :
                  \E i \in RowsOf(t) : reminders[i].reminder_time = j.next_run_time

\* C26: a read error in the body of the recurring job ends that tick only:
\* nothing is sent, the job store and the task rows are as before, so the
\* recurring job stays installed for its later ticks.
C26_ReadErrorSkipsTick ==
    [][(last'.op = "read_failed" /\ last'.kind = "recurring")
        => /\ jobs' = jobs
           /\ sent' = sent
           /\ tasks' = tasks
           /\ \A r \in running' : r.id # RecurringJobId(last'.task)]_vars

\* after a tick lost to a read error, a later tick of the same job has sent
\* its reminder
C26_Witness ==
    \E t \in TaskIds :
        /\ last.op = "dispatch" /\ last.task = t /\ last.kind = "recurring"
        /\ hist[t].readFailed
        /\ hist[t].failed = {}
        /\ sent[t]["recurring"] = 1
        /\ Recurring(JobsOf(jobs, t)) # {}

C27_NoSecondAttempt ==
    \A t \in TaskIds : \A k \in hist[t].failed \cap OneShotKinds :
        /\ sent[t][k] = 0
        /\ \A j \in JobsOf(jobs, t) : j.kind # k
        /\ \A r \in running : ~(r.task = t /\ r.kind = k)

\* C27: a send that fails ends the body: the job store and the task rows are
\* as before (no retry job), and a one-shot reminder whose send failed is
\* never attempted again: it has no job, no running body and no send.
C27_SendErrorContained ==
    /\ []C27_NoSecondAttempt
    /\ [][last'.op = "dispatch_failed"
            => /\ jobs' = jobs
               /\ tasks' = tasks
               /\ sent' = sent
               /\ Cardinality(running') = Cardinality(running) - 1]_vars

\* the send of a one-shot reminder has failed and time has passed its due
\* time since, the task still pending
C27_Witness ==
    \E t \in TaskIds :
        /\ "standard_15min" \in hist[t].failed
        /\ tasks[t].exists /\ tasks[t].status = "pending"
        /\ now > Due(tasks[t])
        /\ last.op = "advance"

\* C28: schedule_reminder does not return normally to its caller while a job
\* of the table that lies ahead is missing from the store.
C28_MissingJobSurfaced ==
    \A t \in TaskIds :
        (last.op = "create" /\ last.task = t /\ "raised" \notin last.marks)
            => DesiredJobs(tasks[t], now) \subseteq Views(JobsOf(jobs, t))

\* C30: a body that finds the row of its task deleted ends without going on
\* to the send; the body of the recurring job has then removed the
\* recurring job from the store.
C30_DeletedTaskEndsJob ==
    \A t \in TaskIds :
        (last.op = "load" /\ last.task = t /\ ~tasks[t].exists)
            => /\ \A r \in running :
                    ~(r.task = t /\ r.kind = last.kind /\ r.phase = "loaded")
               /\ last.kind = "recurring" => Recurring(JobsOf(jobs, t)) = {}

\* the recurring job has fired for a deleted task that was never completed
\* nor stopped by a callback
C30_Witness ==
    \E t \in TaskIds :
        /\ last.op = "load" /\ last.task = t /\ last.kind = "recurring"
        /\ hist[t].deleted
        /\ hist[t].done = "no"
        /\ "after_stop" \notin last.marks
        /\ Recurring(JobsOf(jobs, t)) = {}

\* C29: with the sweep job run fairly, a task that is pending with its due
\* time in the past is in the end no longer pending (marked overdue, or
\* completed), whatever runs of the sweep failed before.
C29_EventuallySwept ==
    \A t \in TaskIds :
        Overdue(tasks[t], now) ~> (tasks[t].status # "pending")

\* a run of the sweep failed at the save of the task, and a later run has
\* marked the task overdue
C29_Witness ==
    \E t \in TaskIds :
        /\ last.op = "sweep" /\ last.task = t
        /\ hist[t].saveFailed > 0
        /\ hist[t].done = "no"
        /\ tasks[t].status = "overdue"

\* C31: the text of a one-shot reminder counts from the clock at fire time:
\* 'Due in N minutes', N >= 1, exactly when 60 seconds or more remain,
\* 'Overdue by N minutes', N >= 1, exactly when the due time lies 60 seconds
\* or more back, 'Due NOW' otherwise; N is the whole minutes of the distance.
C31_MinutesAtFireTime ==
    message # NoMessage =>
        /\ message.text = "Due in" <=> message.time_left >= 60
        /\ message.text = "Overdue by" <=> message.time_left <= 0 - 60
        /\ message.text = "Due NOW"
              <=> (message.time_left > 0 - 60 /\ message.time_left < 60)
        /\ message.text = "Due in" =>
              /\ message.minutes >= 1
              /\ message.minutes * 60 <= message.time_left
              /\ message.time_left < (message.minutes + 1) * 60
        /\ message.text = "Overdue by" =>
              /\ message.minutes >= 1
              /\ message.minutes * 60 <= 0 - message.time_left
              /\ 0 - message.time_left < (message.minutes + 1) * 60

\* a reminder scheduled two minutes ahead of the due time and fired 59
\* seconds after it
C31_Witness ==
    /\ message.text = "Due NOW"
    /\ message.time_left = 0 - 59
    /\ message.at_schedule >= 120

\* C32: an update whose sender is not the authorized user changes no Task
\* row and no job, whatever handler receives it.
C32_UnauthorizedChangesNothing ==
    []["unauthorized" \in last'.marks => (tasks' = tasks /\ jobs' = jobs)]_vars

C33_IdsDistinct ==
    \A j \in jobs, k \in jobs :
        <<j.task, j.kind>> # <<k.task, k.kind>> => j.id # k.id

\* C33: schedule_reminder and stop_recurring_reminders for a task leave the
\* jobs of every other task and the two module jobs as they were and change
\* the status of no task; jobs of different (task, kind) have different ids.
C33_OtherTasksUntouched ==
    /\ []C33_IdsDistinct
    /\ [][\A a \in FrameTaskIds :
            (last'.op \in {"schedule", "stop"} /\ last'.task = a)
              => /\ {j \in jobs' : j.task # a} = {j \in jobs : j.task # a}
                 /\ \A t \in FrameTaskIds : tasks'[t].status = tasks[t].status]_vars

\* task 1 has just been scheduled, recurring job and all, beside the jobs
\* of task 2 and the module jobs
C33_Witness ==
    /\ last.op = "schedule" /\ last.task = 1
    /\ Recurring(JobsOf(jobs, 1)) # {}
    /\ Recurring(JobsOf(jobs, 2)) # {}
    /\ OneShots(JobsOf(jobs, 2)) # {}
    /\ ModuleJobs \subseteq jobs

\* C34: an installed recurring job leaves the job store only in a step of
\* the complete callback, of the Stop Reminders callback, or of a recurring
\* tick that finds the task completed or deleted; every other step keeps it.
C34_RemovedOnlyByThree ==
    [][\A t \in TaskIds :
        (Recurring(JobsOf(jobs, t)) # {} /\ Recurring(JobsOf(jobs', t)) = {})
          => /\ last'.task = t
             /\ \/ last'.op \in {"complete", "stop"}
                \/ /\ last'.op = "load"
                   /\ last'.kind = "recurring"
                   /\ (~tasks[t].exists \/ tasks[t].status = "completed")]_vars

\* C35: the stored list holds at most 20 entries; they are the latest
\* entries said, in their order, a user message followed by the response.
C35_LastTwentyInOrder ==
    LET messages == conversation.context.messages
        said == conversation.said
        kept == IF Len(said) < KEEP_MESSAGES THEN Len(said) ELSE KEEP_MESSAGES
    IN  /\ Len(messages) <= 20
        /\ Len(messages) = kept
        /\ \A i \in 1..kept : messages[i] = said[Len(said) - kept + i]
        /\ \A i \in 1..Len(messages) :
              messages[i].role = IF i % 2 = 1 THEN "user" ELSE "assistant"

\* more than ten exchanges have been made, the first of them is gone
C35_Witness ==
    /\ Len(conversation.said) > KEEP_MESSAGES
    /\ Len(conversation.context.messages) = KEEP_MESSAGES
    /\ conversation.context.messages[1] = conversation.said[3]
    /\ conversation.said[1].content # conversation.said[3].content

====
